---------------------------- MODULE Spec2Model ----------------------------
(***************************************************************************)
(* Model of job-genie (src/static/script.js).  Five specifications:       *)
(*   Spec          one call of processResume, statement by statement       *)
(*                 (extractKeywords, the section filter, prioritizeSections)*)
(*   PageSpec      the handlers of the page: uploads, the generate button, *)
(*                 its timer, the download buttons, the conversion request *)
(*   MarkdownSpec  one call of convertToMarkdown                           *)
(*   FetcherSpec   one run of the bulk URL fetcher, modelled from the      *)
(*                 specification since its code is not among the sources   *)
(*   ScrapeSpec    the handlers of the bulk scraping part of the page: the *)
(*                 URL file upload, the scrape button and its request      *)
(*                                                                         *)
(* A JavaScript string is a sequence of one-character strings.  One extra  *)
(* kind of element, a dot run "D<n>", abbreviates n consecutive '.'         *)
(* characters, so that sections longer than the 1500-character budget can  *)
(* be written down.  '.' is deleted by extractKeywords, is not whitespace,  *)
(* has no upper or lower case and is never part of a keyword, so a run of   *)
(* dots behaves in every operation of the program as one unit of width n.  *)
(***************************************************************************)
EXTENDS Integers, Sequences, FiniteSets, Bags, TLC

\* processResume: its parameters, its locals, its result and its position
VARIABLES resume, jobDescription, jobKeywords, sections, relevantSections,
          scoredSections, selectedSections, processedResume, pc

\* the page: the variables of the DOMContentLoaded closure, the elements it
\* writes to, the callbacks that are pending and what the last handler did
\* (the alert it raised, the file or request body it sent out)
VARIABLES resumeContent, jobContent, resultContent, disabled, preview,
          pendingTimers, pendingRequests, pendingReads, handler, alertShown,
          exported, userEvents

\* convertToMarkdown: its parameter, its locals and its position; the value of
\* markdownContent is kept as the list of the pieces appended to it
VARIABLES plainText, textSections, sectionIndex, markdownContent, markdownPc

\* the bulk URL fetcher: the lines it was given, the URLs it works through,
\* its result records, the files under its output directory and its summary
VARIABLES urlLines, urls, urlIndex, results, outputFiles, summary, fetcherPc

processVars == <<resume, jobDescription, jobKeywords, sections, relevantSections,
                 scoredSections, selectedSections, processedResume, pc>>

pageVars == <<resumeContent, jobContent, resultContent, disabled, preview,
              pendingTimers, pendingRequests, pendingReads, handler, alertShown,
              exported, userEvents>>

markdownVars == <<plainText, textSections, sectionIndex, markdownContent, markdownPc>>

\* the bulk scraping part of the page: the closure variable, the elements the
\* handlers write to and the callbacks that are pending
VARIABLES urlsFileContent, scrapeUrlsBtn, urlsPreview, resultsSummary,
          pendingUrlReads, pendingScrapes

fetcherVars == <<urlLines, urls, urlIndex, results, outputFiles, summary, fetcherPc>>

scrapeVars == <<urlsFileContent, scrapeUrlsBtn, urlsPreview, resultsSummary,
               pendingUrlReads, pendingScrapes>>

vars == <<processVars, pageVars, markdownVars, fetcherVars, scrapeVars>>

(***************************************************************************)
(* Bounds of the model and constants of the program.                       *)
(***************************************************************************)
MaxJobPieces == 3

MaxSections == 3

maxLength == 1500

keywordLimit == 15

(***************************************************************************)
(* Strings.                                                                *)
(***************************************************************************)
Chars(s) == [i \in 1..Len(s) |-> SubSeq(s, i, i)]

DotRuns == [D744 |-> 744, D746 |-> 746, D1492 |-> 1492]

\* String.prototype.length: a dot run counts for its n characters.
CharWidth(c) == IF c \in DOMAIN DotRuns THEN DotRuns[c] ELSE 1

RECURSIVE length(_)
length(s) == IF s = <<>> THEN 0 ELSE CharWidth(Head(s)) + length(Tail(s))

UpperCase == Chars("ABCDEFGHIJKLMNOPQRSTUVWXYZ")

LowerCase == Chars("abcdefghijklmnopqrstuvwxyz")

Digits == Chars("0123456789")

InSeq(c, s) == \E i \in 1..Len(s) : s[i] = c

IndexOf(c, s) == CHOOSE i \in 1..Len(s) : s[i] = c

toLowerChar(c) == IF InSeq(c, UpperCase) THEN LowerCase[IndexOf(c, UpperCase)] ELSE c

toLowerCase(s) == [i \in 1..Len(s) |-> toLowerChar(s[i])]

StartsWithAt(s, t, i) ==
    /\ i + Len(t) - 1 <= Len(s)
    /\ \A k \in 1..Len(t) : s[i + k - 1] = t[k]

\* String.prototype.includes
includes(s, t) == \E i \in 1..(Len(s) - Len(t) + 1) : StartsWithAt(s, t, i)

\* String.prototype.split with a non-empty string separator: the pieces
\* between the non-overlapping occurrences of sep, found left to right.
RECURSIVE SplitFrom(_, _, _)
SplitFrom(s, sep, start) ==
    LET found == { j \in start..Len(s) : StartsWithAt(s, sep, j) }
    IN  IF found = {} THEN <<SubSeq(s, start, Len(s))>>
        ELSE LET j == CHOOSE x \in found : \A y \in found : x <= y
             IN  <<SubSeq(s, start, j - 1)>> \o SplitFrom(s, sep, j + Len(sep))

split(s, sep) == SplitFrom(s, sep, 1)

\* Array.prototype.join
RECURSIVE join(_, _)
join(arr, sep) ==
    IF arr = <<>> THEN <<>>
    ELSE IF Len(arr) = 1 THEN arr[1]
    ELSE arr[1] \o sep \o join(Tail(arr), sep)

RECURSIVE Concat(_)
Concat(arr) == IF arr = <<>> THEN <<>> ELSE Head(arr) \o Concat(Tail(arr))

(***************************************************************************)
(* extractKeywords (script.js 216-246).                                    *)
(***************************************************************************)
\* The character class of the first replace (a dot run is a run of dots;
\* the backquote character is written "backquote").
Punctuation ==
    {".", ",", "/", "#", "!", "$", "%", "^", "&", "*", ";",
     ":", "{", "}", "=", "-", "_", "backquote", "~", "(", ")",
     "D744", "D746", "D1492"}

\* Variant of stripPunctuation: a space takes the place of each character.
stripPunctuationToSpace(s) ==
    [i \in 1..Len(s) |-> IF s[i] \in Punctuation THEN " " ELSE s[i]]

\* first replace: every character of the class is deleted, nothing is inserted
stripPunctuation(s) == SelectSeq(s, LAMBDA c : c \notin Punctuation)

\* the class \s
Whitespace == {" ", "\n", "\t"}

\* second replace: every maximal run of two or more whitespace
\* characters becomes one space; a single whitespace character stays.
collapseWhitespace(s) ==
    LET InRun(i) == s[i] \in Whitespace /\
                    \/ i > 1 /\ s[i - 1] \in Whitespace
                    \/ i < Len(s) /\ s[i + 1] \in Whitespace
        kept == SelectSeq([i \in 1..Len(s) |-> i],
                          LAMBDA i : ~(InRun(i) /\ i > 1 /\ s[i - 1] \in Whitespace))
    IN  [k \in 1..Len(kept) |-> IF InRun(kept[k]) THEN " " ELSE s[kept[k]]]

\* const text = jobDescription.toLowerCase().replace(...).replace(...)
normalizedText(jd) == collapseWhitespace(stripPunctuation(toLowerCase(jd)))

\* const words = text.split(" ")
words(jd) == split(normalizedText(jd), <<" ">>)

commonWords ==
    { Chars(w) : w \in {"and", "the", "to", "of", "a", "in", "for", "is", "on",
                        "that", "by", "this", "with", "i", "you", "it", "not",
                        "or", "be", "are", "from", "at", "as", "your", "have",
                        "more", "an", "was"} }

\* Variant of filteredWords: the length test off by one (word.length >= 3).
filteredWordsFromLength3(jd) ==
    SelectSeq(words(jd), LAMBDA w : length(w) >= 3 /\ w \notin commonWords)

\* words.filter(word => word.length > 3 && !commonWords.includes(word))
filteredWords(jd) ==
    SelectSeq(words(jd), LAMBDA w : length(w) > 3 /\ w \notin commonWords)

\* The names a plain object inherits from Object.prototype that a filtered
\* word can equal: the others (toString, hasOwnProperty, __proto__, ...) hold
\* an upper-case letter or an underscore, which lowercasing and the first
\* replace remove.
ObjectPrototypeKeys == { Chars("constructor") }

HasKey(wc, word) == \E i \in 1..Len(wc) : wc[i].key = word

KeyIndex(wc, word) == CHOOSE i \in 1..Len(wc) : wc[i].key = word

\* wordCount[word] = (wordCount[word] || 0) + 1 on the object wordCount, kept
\* as its own properties in insertion order.  A value is a number (num) or,
\* for an inherited name, the string "function Object() { [native code] }"
\* followed by n characters "1": the inherited value is truthy, so + is a
\* string concatenation.
countWord(wc, word) ==
    IF HasKey(wc, word)
    THEN [wc EXCEPT ![KeyIndex(wc, word)].n = @ + 1]
    ELSE Append(wc, [key |-> word, num |-> word \notin ObjectPrototypeKeys, n |-> 1])

RECURSIVE CountFrom(_, _)
CountFrom(ws, wc) ==
    IF ws = <<>> THEN wc ELSE CountFrom(Tail(ws), countWord(wc, Head(ws)))

\* const wordCount = {}; filteredWords.forEach(...)
wordCount(ws) == CountFrom(ws, <<>>)

AllDigits(w) == \A i \in 1..Len(w) : InSeq(w[i], Digits)

RECURSIVE LexLess(_, _)
LexLess(a, b) ==
    IF a = <<>> \/ b = <<>> THEN FALSE
    ELSE IF Head(a) = Head(b) THEN LexLess(Tail(a), Tail(b))
    ELSE IndexOf(Head(a), Digits) < IndexOf(Head(b), Digits)

\* An array index: the canonical decimal form of an integer in 0 .. 2^32 - 2.
IsArrayIndex(w) ==
    /\ Len(w) >= 1
    /\ AllDigits(w)
    /\ (Len(w) = 1 \/ w[1] # "0")
    /\ \/ Len(w) < 10
       \/ Len(w) = 10 /\ ~LexLess(Chars("4294967294"), w)

IndexLess(a, b) == Len(a) < Len(b) \/ (Len(a) = Len(b) /\ LexLess(a, b))

\* Stable descending order of the positions 1..Len(keys) by key: position i
\* comes before position j when keys[i] > keys[j], or when they are equal
\* and i < j (Array.prototype.sort is stable).
RECURSIVE InsertPosition(_, _, _)
InsertPosition(order, i, keys) ==
    IF order = <<>> THEN <<i>>
    ELSE IF keys[Head(order)] >= keys[i]
         THEN <<Head(order)>> \o InsertPosition(Tail(order), i, keys)
         ELSE <<i>> \o order

RECURSIVE StableOrder(_, _)
StableOrder(keys, n) ==
    IF n = 0 THEN <<>> ELSE InsertPosition(StableOrder(keys, n - 1), n, keys)

Reorder(arr, order) == [i \in 1..Len(order) |-> arr[order[i]]]

\* Object.entries(wordCount): the array-index keys in ascending numeric
\* order, then the other keys in insertion order.
ObjectEntries(wc) ==
    LET idx    == SelectSeq(wc, LAMBDA e : IsArrayIndex(e.key))
        others == SelectSeq(wc, LAMBDA e : ~IsArrayIndex(e.key))
        rank   == [i \in 1..Len(idx) |->
                     0 - Cardinality({j \in 1..Len(idx) : IndexLess(idx[j].key, idx[i].key)})]
    IN  Reorder(idx, StableOrder(rank, Len(idx))) \o others

\* Variant of sortByCount: the comparison reversed (a[1] - b[1]).
sortByCountAscending(entries) ==
    { Reorder(entries, StableOrder([i \in 1..Len(entries) |-> 0 - entries[i].n],
                                   Len(entries))) }

AllNumbers(entries) == \A i \in 1..Len(entries) : entries[i].num

\* (a, b) => b[1] - a[1] with a string value gives NaN, which sort takes as
\* +0.  The comparison stays consistent when all the numbers are equal
\* (every comparison is then 0); it is inconsistent when a string value
\* meets two different numbers.
ConsistentComparator(entries) ==
    \/ AllNumbers(entries)
    \/ \A i, j \in 1..Len(entries) :
          entries[i].num /\ entries[j].num => entries[i].n = entries[j].n

\* .sort((a, b) => b[1] - a[1]): stable and descending by count; with an
\* inconsistent comparison the order is implementation-defined, any
\* permutation of the entries.
sortByCount(entries) ==
    IF AllNumbers(entries)
    THEN { Reorder(entries, StableOrder([i \in 1..Len(entries) |-> entries[i].n],
                                        Len(entries))) }
    ELSE IF ConsistentComparator(entries)
    THEN { entries }
    ELSE { Reorder(entries, p) : p \in Permutations(1..Len(entries)) }

\* .slice(0, n)
slice(arr, n) == SubSeq(arr, 1, IF Len(arr) < n THEN Len(arr) ELSE n)

\* .slice(0, 15).map(entry => entry[0])
topKeywords(sorted) == [i \in 1..Len(slice(sorted, keywordLimit)) |-> sorted[i].key]

\* The lists extractKeywords(jobDescription) can return.
extractKeywords(jd) ==
    { topKeywords(sorted) :
        sorted \in sortByCount(ObjectEntries(wordCount(filteredWords(jd)))) }

(***************************************************************************)
(* prioritizeSections (script.js 174-211).                                 *)
(***************************************************************************)
\* new RegExp(keyword, "gi").  Of the characters that have a meaning in a
\* pattern, the first replace of extractKeywords deletes . * ^ $ ( ) { } and
\* leaves + ? [ ] | and the backslash; the inputs of this model hold "+".
\* A "+" repeats the character before it one or more times; a "+" at the
\* start of the pattern or after another "+" has nothing to repeat, and the
\* constructor throws a SyntaxError.
validPattern(keyword) ==
    \A i \in 1..Len(keyword) :
        keyword[i] = "+" => i > 1 /\ keyword[i - 1] # "+"

\* The pattern as atoms: a character, repeated or not.
patternAtoms(keyword) ==
    LET at == SelectSeq([i \in 1..Len(keyword) |-> i], LAMBDA i : keyword[i] # "+")
    IN  [a \in 1..Len(at) |->
           [c    |-> toLowerChar(keyword[at[a]]),
            plus |-> at[a] < Len(keyword) /\ keyword[at[a] + 1] = "+"]]

\* The number of consecutive characters c (ignoring case) in text from p on.
RECURSIVE RunLength(_, _, _)
RunLength(text, p, c) ==
    IF p <= Len(text) /\ toLowerChar(text[p]) = c
    THEN 1 + RunLength(text, p + 1, c) ELSE 0

\* The position just after the match of atoms[a..] that starts at p, as a
\* backtracking matcher finds it (a repetition takes as many characters as
\* it can and gives back one at a time); 0 when there is no match at p.
RECURSIVE MatchEnd(_, _, _, _), TryRepeat(_, _, _, _, _)
MatchEnd(atoms, a, text, p) ==
    IF a > Len(atoms) THEN p
    ELSE IF atoms[a].plus
         THEN TryRepeat(atoms, a, text, p, RunLength(text, p, atoms[a].c))
         ELSE IF p <= Len(text) /\ toLowerChar(text[p]) = atoms[a].c
              THEN MatchEnd(atoms, a + 1, text, p + 1)
              ELSE 0

TryRepeat(atoms, a, text, p, k) ==
    IF k = 0 THEN 0
    ELSE LET e == MatchEnd(atoms, a + 1, text, p + k)
         IN  IF e # 0 THEN e ELSE TryRepeat(atoms, a, text, p, k - 1)

\* section.match(regex) with the g flag: the matches found left to right,
\* each search starting where the last match ended.
RECURSIVE CountMatches(_, _, _)
CountMatches(atoms, text, p) ==
    IF p > Len(text) THEN 0
    ELSE LET e == MatchEnd(atoms, 1, text, p)
         IN  IF e # 0 THEN 1 + CountMatches(atoms, text, e)
             ELSE CountMatches(atoms, text, p + 1)

\* matches ? matches.length : 0
matchCount(section, keyword) == CountMatches(patternAtoms(keyword), section, 1)

RECURSIVE SumOver(_)
SumOver(ns) == IF ns = <<>> THEN 0 ELSE Head(ns) + SumOver(Tail(ns))

\* let score = 0; keywords.forEach(keyword => { ... score += matches.length })
sectionScore(section, keywords) ==
    SumOver([k \in 1..Len(keywords) |-> matchCount(section, keywords[k])])

\* sections.map(section => ({ section, score })); pos is the place of the
\* element in the mapped array.
scoreSections(secs, keywords) ==
    [i \in 1..Len(secs) |->
        [section |-> secs[i], score |-> sectionScore(secs[i], keywords), pos |-> i]]

\* Variant of sortByScore: the comparison reversed (a.score - b.score).
sortByScoreAscending(scored) ==
    Reorder(scored, StableOrder([i \in 1..Len(scored) |-> 0 - scored[i].score], Len(scored)))

\* scoredSections.sort((a, b) => b.score - a.score)
sortByScore(scored) ==
    Reorder(scored, StableOrder([i \in 1..Len(scored) |-> scored[i].score], Len(scored)))

\* for (const { section } of scoredSections) { ... }: from candidate i on,
\* with the running totalLength and the sections selected so far.
RECURSIVE SelectFrom(_, _, _, _)
SelectFrom(scored, i, totalLength, selected) ==
    IF i > Len(scored) THEN selected
    ELSE LET section == scored[i].section
         IN  IF totalLength + length(section) <= maxLength
             THEN SelectFrom(scored, i + 1, totalLength + length(section) + 2,
                             Append(selected, section))
             ELSE IF Len(selected) = 0
                  THEN Append(selected, section)
                  ELSE selected

\* Variant of the loop: no branch that keeps a first section that does not fit.
RECURSIVE SelectFittingFrom(_, _, _, _)
SelectFittingFrom(scored, i, totalLength, selected) ==
    IF i > Len(scored) THEN selected
    ELSE LET section == scored[i].section
         IN  IF totalLength + length(section) <= maxLength
             THEN SelectFittingFrom(scored, i + 1, totalLength + length(section) + 2,
                                    Append(selected, section))
             ELSE selected

selectSectionsOnlyFitting(scored) == SelectFittingFrom(scored, 1, 0, <<>>)

\* Variant of the loop: totalLength does not count the two separator characters.
RECURSIVE SelectNoSeparatorFrom(_, _, _, _)
SelectNoSeparatorFrom(scored, i, totalLength, selected) ==
    IF i > Len(scored) THEN selected
    ELSE LET section == scored[i].section
         IN  IF totalLength + length(section) <= maxLength
             THEN SelectNoSeparatorFrom(scored, i + 1, totalLength + length(section),
                                        Append(selected, section))
             ELSE IF Len(selected) = 0
                  THEN Append(selected, section)
                  ELSE selected

selectSectionsNoSeparator(scored) == SelectNoSeparatorFrom(scored, 1, 0, <<>>)

\* Variant of the loop: no break after a first section that does not fit.
RECURSIVE SelectNoBreakFrom(_, _, _, _)
SelectNoBreakFrom(scored, i, totalLength, selected) ==
    IF i > Len(scored) THEN selected
    ELSE LET section == scored[i].section
         IN  IF totalLength + length(section) <= maxLength
             THEN SelectNoBreakFrom(scored, i + 1, totalLength + length(section) + 2,
                                    Append(selected, section))
             ELSE IF Len(selected) = 0
                  THEN SelectNoBreakFrom(scored, i + 1, totalLength,
                                         Append(selected, section))
                  ELSE selected

selectSectionsNoBreak(scored) == SelectNoBreakFrom(scored, 1, 0, <<>>)

\* Variant of the loop: a candidate that does not fit is skipped and the
\* loop goes on to the next one.
RECURSIVE SelectSkippingFrom(_, _, _, _)
SelectSkippingFrom(scored, i, totalLength, selected) ==
    IF i > Len(scored) THEN selected
    ELSE LET section == scored[i].section
         IN  IF totalLength + length(section) <= maxLength
             THEN SelectSkippingFrom(scored, i + 1, totalLength + length(section) + 2,
                                     Append(selected, section))
             ELSE IF Len(selected) = 0
                  THEN Append(selected, section)
                  ELSE SelectSkippingFrom(scored, i + 1, totalLength, selected)

selectSectionsSkipping(scored) == SelectSkippingFrom(scored, 1, 0, <<>>)

selectSections(scored) == SelectFrom(scored, 1, 0, <<>>)

\* The map callback runs once per section and builds a RegExp per keyword:
\* with at least one section, an invalid keyword throws.
prioritizeThrows(secs, keywords) ==
    /\ secs # <<>>
    /\ \E k \in 1..Len(keywords) : ~validPattern(keywords[k])

(***************************************************************************)
(* processResume (script.js 144-169).                                      *)
(***************************************************************************)
SectionSeparator == <<"\n", "\n">>

\* Variant of isRelevant: every in place of some.
isRelevantToEvery(section, keywords) ==
    \A k \in 1..Len(keywords) :
        includes(toLowerCase(section), toLowerCase(keywords[k]))

\* jobKeywords.some(keyword => section.toLowerCase().includes(keyword.toLowerCase()))
isRelevant(section, keywords) ==
    \E k \in 1..Len(keywords) :
        includes(toLowerCase(section), toLowerCase(keywords[k]))

\* Variant of filterSections: no filter.
filterSectionsKeepAll(secs, keywords) == secs

\* sections.filter(section => ...)
filterSections(secs, keywords) == SelectSeq(secs, LAMBDA x : isRelevant(x, keywords))

\* Variant of header: a newline is put before the sections.
headerNewline == <<"\n">>

\* const header = ""
header == <<>>

(***************************************************************************)
(* The inputs: job descriptions put together from a few pieces of text,    *)
(* resumes put together from a few sections.                               *)
(***************************************************************************)
SeqsUpTo(S, n) == UNION { [1..k -> S] : k \in 0..n }

JobPieces ==
    { Chars("java "), Chars("Java,\n\n"), Chars("rust java "), Chars("The SQL "),
      Chars("2024 1999 "), Chars("dev-ops team\nlead ") }

\* Texts that hold a name inherited from Object.prototype; they are few, so
\* that the orders an inconsistent comparison allows can be enumerated.
ConstructorJobs ==
    { Chars("constructor "), Chars("Java constructor constructor "),
      Chars("rust java java constructor ") }

\* keywordLimit + 1 different words kwxa, kwxb, ..., the last one twice.
LongList ==
    Concat([i \in 1..(keywordLimit + 1) |-> <<"k", "w", "x", LowerCase[i], " ">>])
        \o <<"k", "w", "x", LowerCase[keywordLimit + 1], " ">>

FoxText ==
    Chars("The Quick Brown Fox Jumps Over The Lazy Dog Software Engineer Software Engineer")

\* words on both sides of a single tab, of a deleted character and of two tabs
TabbedText == Chars("full\tstack (node.js)\t\tteam ")

JobDescriptions ==
    { Concat(ps) : ps \in SeqsUpTo(JobPieces, MaxJobPieces) }
        \cup { FoxText }
        \cup { TabbedText }
        \cup ConstructorJobs
        \cup { LongList \o Concat(ps) : ps \in SeqsUpTo(JobPieces, MaxJobPieces - 2) }

NarrowJobs ==
    { Chars("java rust java "), Chars("java+ rust "), Chars("c++11 java "),
      Chars("The SQL ") }

SectionPool ==
    { Chars("Java rust JAVA"),
      Chars("hobbies"),
      Chars("java") \o <<"D744">>,
      Chars("rust") \o <<"D746">>,
      Chars("rust java") \o <<"D1492">> }

\* resumes that end in a newline, as text files do, or that have three
\* newlines in a row
NewlineResumes ==
    { Chars("hobbies\n\njava\n\nrust java rust\n"),
      Chars("rust java rust\n\njava\n"),
      Chars("java\n\n\nrust java rust\n\nhobbies") }

Resumes ==
    { join(ss, SectionSeparator) : ss \in SeqsUpTo(SectionPool, MaxSections) }
        \cup NewlineResumes

NarrowResumes ==
    { Chars("Java rust JAVA\n\nTeam\nLead since 2024, constructor devops kwxa\n\nhobbies") }

(***************************************************************************)
(* convertToMarkdown (script.js 347-385).                                  *)
(***************************************************************************)
toUpperChar(c) == IF InSeq(c, LowerCase) THEN UpperCase[IndexOf(c, LowerCase)] ELSE c

toUpperCase(s) == [k \in 1..Len(s) |-> toUpperChar(s[k])]

\* the white space String.prototype.trim removes
TrimSpace == {" ", "\n", "\t", "\r"}

trim(s) ==
    LET solid == { k \in 1..Len(s) : s[k] \notin TrimSpace }
    IN  IF solid = {} THEN <<>>
        ELSE SubSeq(s, CHOOSE k \in solid : \A m \in solid : k <= m,
                       CHOOSE k \in solid : \A m \in solid : m <= k)

startsWith(s, t) == StartsWithAt(s, t, 1)

ColonNewline == <<":", "\n">>

\* const isHeader = section.toUpperCase() === section && section.length > 0
isHeader(section) == toUpperCase(section) = section /\ Len(section) > 0

SectionKinds == {"empty", "header", "list", "titled", "paragraph"}

\* the branch the loop body takes for a trimmed section
sectionKind(section) ==
    IF section = <<>> THEN "empty"
    ELSE IF isHeader(section) THEN "header"
    ELSE IF startsWith(section, <<"-", " ">>) THEN "list"
    ELSE IF includes(section, ColonNewline) THEN "titled"
    ELSE "paragraph"

\* if (i === 0) "# section" else "## section", each followed by a blank line
headerMarkdown(section, index) ==
    IF index = 0 THEN Chars("# ") \o section \o SectionSeparator
    ELSE Chars("## ") \o section \o SectionSeparator

\* Variant of titledMarkdown: the rest is joined with a newline only.
titledMarkdownJoinNewline(section) ==
    LET parts == split(section, ColonNewline)
    IN  Chars("### ") \o trim(Head(parts)) \o SectionSeparator
            \o join(Tail(parts), <<"\n">>) \o SectionSeparator

\* const [title, ...content] = section.split(":\n"); "### title", a blank
\* line, content.join(":\n"), a blank line
titledMarkdown(section) ==
    LET parts == split(section, ColonNewline)
    IN  Chars("### ") \o trim(Head(parts)) \o SectionSeparator
            \o join(Tail(parts), ColonNewline) \o SectionSeparator

\* a list and a regular paragraph: the section, then a blank line
plainMarkdown(section) == section \o SectionSeparator

\* what one pass of the loop body appends for sections[index]
sectionMarkdown(rawSection, index) ==
    LET section == trim(rawSection)
        kind == sectionKind(section)
    IN  CASE kind = "empty"  -> <<>>
          [] kind = "header" -> headerMarkdown(section, index)
          [] kind = "titled" -> titledMarkdown(section)
          [] OTHER           -> plainMarkdown(section)

convertToMarkdown(content) ==
    LET pieces == split(content, SectionSeparator)
    IN  Concat([k \in 1..Len(pieces) |-> sectionMarkdown(pieces[k], k - 1)])

(***************************************************************************)
(* The page (script.js 1-139 and 251-317): what the handlers read and      *)
(* write.  An element's content is a record: element "p" is one            *)
(* <p class="placeholder-text"> child holding a text, element "#text" is a *)
(* bare text node (no child at all when the text is empty).                *)
(***************************************************************************)
Buttons == {"generateBtn", "downloadTxtBtn", "downloadPdfBtn", "downloadMdBtn"}

FileTypes == {"resume", "job"}

NoAlert == <<>>

\* what a handler sends out: the name of the download or the endpoint, the
\* text taken from the result area and the text sent
NoExport == [to |-> <<>>, content |-> <<>>, body |-> <<>>]

NoResumeAlert == Chars("No resume to download")

PlaceholderOpen == Chars("<p class=\"placeholder-text\">")

PlaceholderClose == Chars("</p>")

placeholderText(text) == [element |-> "p", text |-> text]

textNode(text) == [element |-> "#text", text |-> text]

\* the getter of Node.textContent
textContent(el) == el.text

\* the characters the HTML serialisation of a text node escapes
escapeChar(c) ==
    CASE c = "&" -> Chars("&amp;")
      [] c = "<" -> Chars("&lt;")
      [] c = ">" -> Chars("&gt;")
      [] OTHER   -> <<c>>

escapeText(text) == Concat([i \in 1..Len(text) |-> escapeChar(text[i])])

\* the getter of Element.innerHTML
innerHTML(el) ==
    IF el.element = "p"
    THEN PlaceholderOpen \o escapeText(el.text) \o PlaceholderClose
    ELSE escapeText(el.text)

\* The HTML parser reads its input with every CR LF pair and every other
\* CR turned into one LF.
normalizeNewlines(html) ==
    LET kept == SelectSeq([i \in 1..Len(html) |-> i],
                          LAMBDA i : ~(html[i] = "\r" /\ i < Len(html)
                                       /\ html[i + 1] = "\n"))
    IN  [k \in 1..Len(kept) |-> IF html[kept[k]] = "\r" THEN "\n" ELSE html[kept[k]]]

CharacterReferences ==
    { <<Chars("&amp;"), "&">>, <<Chars("&lt;"), "<">>, <<Chars("&gt;"), ">">> }

ReferenceAt(html, i) ==
    { r \in CharacterReferences : StartsWithAt(html, r[1], i) }

\* character data of the parsed text: each character reference is replaced
\* by the character it names
decodeText(html) ==
    LET Inside(i) == \E j \in 1..(i - 1) : \E r \in ReferenceAt(html, j) :
                         i < j + Len(r[1])
        kept == SelectSeq([i \in 1..Len(html) |-> i], LAMBDA i : ~Inside(i))
    IN  [k \in 1..Len(kept) |->
            IF ReferenceAt(html, kept[k]) # {}
            THEN (CHOOSE r \in ReferenceAt(html, kept[k]) : TRUE)[2]
            ELSE html[kept[k]]]

endsWith(s, t) == Len(t) <= Len(s) /\ StartsWithAt(s, t, Len(s) - Len(t) + 1)

\* The setter of Element.innerHTML, for the markup this page assigns: one
\* placeholder paragraph, or a serialised text (which holds no tag).
parseHTML(html) ==
    LET input == normalizeNewlines(html)
    IN  IF StartsWithAt(input, PlaceholderOpen, 1) /\ endsWith(input, PlaceholderClose)
           /\ Len(input) >= Len(PlaceholderOpen) + Len(PlaceholderClose)
        THEN placeholderText(decodeText(
                 SubSeq(input, Len(PlaceholderOpen) + 1,
                        Len(input) - Len(PlaceholderClose))))
        ELSE textNode(decodeText(input))

InitialPlaceholder == Chars("Your tailored resume will appear here")

ProcessingIndicator == Chars("<p class=\"placeholder-text\">Processing... Please wait.</p>")

GeneratingPdfIndicator ==
    Chars("<p class=\"placeholder-text\">Generating PDF... Please wait.</p>")

(***************************************************************************)
(* The files a user can pick, and the answers of the conversion service.   *)
(***************************************************************************)
MaxUserEvents == 5

ResumeTexts ==
    { Chars("Java & rust\n\nhobbies"), Chars("java\r\n\r\nhobbies"), <<>> }

JobTexts == { Chars("java rust "), Chars("c++11 java "), <<>> }

FileTexts(fileType) == IF fileType = "resume" THEN ResumeTexts ELSE JobTexts

TextPlain == Chars("text/plain")

TxtSuffix == Chars(".txt")

\* what the files with another name or type hold
OtherText(fileType) ==
    IF fileType = "resume" THEN Chars("Java & rust\n\nhobbies") ELSE Chars("java rust ")

\* event.target.files[0]: a text file, a file that is text by its name only,
\* a file that is no text file, or none
Files(fileType) ==
    [name : {Chars("upload.txt")}, type : {TextPlain},
     content : FileTexts(fileType)]
      \cup { [name |-> Chars("notes.txt"), type |-> <<>>,
              content |-> OtherText(fileType)],
             [name |-> Chars("cv.pdf"), type |-> Chars("application/pdf"),
              content |-> OtherText(fileType)] }

NoFile == [name |-> <<>>, type |-> <<>>, content |-> <<>>]

\* what a change event of each file input can carry
PickableFiles == [fileType \in FileTypes |-> Files(fileType) \cup {NoFile}]

\* what the promise chain of fetch("/convert-resume") can run into
ConversionOutcomes == {"success", "refused", "networkError", "unparsable"}

\* the page as the browser hands it to the script
PageLoaded ==
    /\ resumeContent = <<>>
    /\ jobContent = <<>>
    /\ resultContent = placeholderText(InitialPlaceholder)
    /\ disabled = [b \in Buttons |-> TRUE]
    /\ preview = [t \in FileTypes |-> "empty"]
    /\ pendingTimers = 0
    /\ pendingRequests = EmptyBag
    /\ pendingReads = EmptyBag
    /\ handler = "none"
    /\ alertShown = NoAlert
    /\ exported = NoExport
    /\ userEvents = 0

MarkdownIdle ==
    /\ plainText = <<>>
    /\ textSections = <<>>
    /\ sectionIndex = 0
    /\ markdownContent = <<>>
    /\ markdownPc = "idle"

NoSummary == [total |-> 0, success |-> 0, failed |-> 0]

FetcherIdle ==
    /\ urlLines = <<>>
    /\ urls = <<>>
    /\ urlIndex = 0
    /\ results = <<>>
    /\ outputFiles = {}
    /\ summary = NoSummary
    /\ fetcherPc = "idle"

ScrapeLabel == Chars("Scrape Job URLs")

ScrapingLabel == Chars("Scraping URLs...")

\* the bulk scraping part of the page as the browser hands it to the script:
\* no URL content, the scrape button waiting to be enabled by an upload
ScrapeIdle ==
    /\ urlsFileContent = <<>>
    /\ scrapeUrlsBtn = [disabled |-> TRUE, textContent |-> ScrapeLabel]
    /\ urlsPreview = [shows |-> "empty", found |-> 0, urls |-> <<>>]
    /\ resultsSummary = [summary |-> "hidden", details |-> "none"]
    /\ pendingUrlReads = EmptyBag
    /\ pendingScrapes = EmptyBag

(***************************************************************************)
(* processResume(resume, jobDescription), statement by statement.          *)
(***************************************************************************)
Init ==
    /\ \/ jobDescription \in JobDescriptions /\ resume \in NarrowResumes
       \/ jobDescription \in NarrowJobs /\ resume \in Resumes
    /\ jobKeywords = <<>>
    /\ sections = <<>>
    /\ relevantSections = <<>>
    /\ scoredSections = <<>>
    /\ selectedSections = <<>>
    /\ processedResume = <<>>
    /\ pc = "start"
    /\ PageLoaded
    /\ MarkdownIdle
    /\ FetcherIdle
    /\ ScrapeIdle

\* const jobKeywords = extractKeywords(jobDescription)
ExtractKeywords ==
    /\ pc = "start"
    /\ jobKeywords' \in extractKeywords(jobDescription)
    /\ pc' = "extracted"
    /\ UNCHANGED <<resume, jobDescription, sections, relevantSections,
                   scoredSections, selectedSections, processedResume>>
    /\ UNCHANGED <<pageVars, markdownVars, fetcherVars, scrapeVars>>

\* const sections = resume.split("\n\n"); let relevantSections = sections.filter(...)
FilterSections ==
    /\ pc = "extracted"
    /\ sections' = split(resume, SectionSeparator)
    /\ relevantSections' = filterSections(sections', jobKeywords)
    /\ pc' = "filtered"
    /\ UNCHANGED <<resume, jobDescription, jobKeywords, scoredSections,
                   selectedSections, processedResume>>
    /\ UNCHANGED <<pageVars, markdownVars, fetcherVars, scrapeVars>>

\* relevantSections = prioritizeSections(relevantSections, jobKeywords)
PrioritizeSections ==
    /\ pc = "filtered"
    /\ ~prioritizeThrows(relevantSections, jobKeywords)
    /\ scoredSections' = sortByScore(scoreSections(relevantSections, jobKeywords))
    /\ selectedSections' = selectSections(scoredSections')
    /\ pc' = "prioritized"
    /\ UNCHANGED <<resume, jobDescription, jobKeywords, sections,
                   relevantSections, processedResume>>
    /\ UNCHANGED <<pageVars, markdownVars, fetcherVars, scrapeVars>>

\* new RegExp(keyword, "gi") throws: processResume ends without a result
PrioritizeThrows ==
    /\ pc = "filtered"
    /\ prioritizeThrows(relevantSections, jobKeywords)
    /\ pc' = "threw"
    /\ UNCHANGED <<resume, jobDescription, jobKeywords, sections,
                   relevantSections, scoredSections, selectedSections,
                   processedResume>>
    /\ UNCHANGED <<pageVars, markdownVars, fetcherVars, scrapeVars>>

\* return header + relevantSections.join("\n\n")
JoinSections ==
    /\ pc = "prioritized"
    /\ processedResume' = header \o join(selectedSections, SectionSeparator)
    /\ pc' = "done"
    /\ UNCHANGED <<resume, jobDescription, jobKeywords, sections,
                   relevantSections, scoredSections, selectedSections>>
    /\ UNCHANGED <<pageVars, markdownVars, fetcherVars, scrapeVars>>

Next ==
    \/ ExtractKeywords
    \/ FilterSections
    \/ PrioritizeSections
    \/ PrioritizeThrows
    \/ JoinSections

Spec == Init /\ [][Next]_vars

(***************************************************************************)
(* The handlers of the page.  Each action is one run of a handler or of a  *)
(* callback; the browser runs them one at a time.  A click reaches its     *)
(* handler only while the button is enabled.  The reads and the requests   *)
(* that are pending form bags: they complete in any order.                 *)
(***************************************************************************)
\* Variant of isTextFile: the negation of the name test is lost.
isTextFileNameTestInverted(file) ==
    ~(file.type # TextPlain /\ endsWith(file.name, TxtSuffix))

\* the file passes the test of line 72
isTextFile(file) ==
    ~(file.type # TextPlain /\ ~endsWith(file.name, TxtSuffix))

\* handleFileUpload(event, previewElement, fileType), up to reader.readAsText
HandleFileUpload(fileType, file) ==
    /\ userEvents < MaxUserEvents
    /\ userEvents' = userEvents + 1
    /\ handler' = "handleFileUpload"
    /\ alertShown' = NoAlert
    /\ exported' = NoExport
    /\ IF file = NoFile
       THEN UNCHANGED <<preview, pendingReads>>
       ELSE IF ~isTextFile(file)
       THEN /\ preview' = [preview EXCEPT ![fileType] = "errorNotText"]
            /\ UNCHANGED pendingReads
       ELSE /\ preview' = [preview EXCEPT ![fileType] = "loading"]
            /\ pendingReads' = pendingReads (+)
                   SetToBag({[fileType |-> fileType, content |-> file.content]})
    /\ UNCHANGED <<resumeContent, jobContent, resultContent, disabled,
                   pendingTimers, pendingRequests>>
    /\ UNCHANGED <<processVars, markdownVars, fetcherVars, scrapeVars>>

\* reader.onload of a pending read
ReaderLoads(read) ==
    /\ preview' = [preview EXCEPT ![read.fileType] = "loaded"]
    /\ resumeContent' =
           IF read.fileType = "resume" THEN read.content ELSE resumeContent
    /\ jobContent' = IF read.fileType = "job" THEN read.content ELSE jobContent
    /\ disabled' = IF resumeContent' # <<>> /\ jobContent' # <<>>
                   THEN [disabled EXCEPT !["generateBtn"] = FALSE]
                   ELSE disabled
    /\ pendingReads' = pendingReads (-) SetToBag({read})
    /\ handler' = "reader.onload"
    /\ alertShown' = NoAlert
    /\ exported' = NoExport
    /\ UNCHANGED <<resultContent, pendingTimers, pendingRequests, userEvents>>
    /\ UNCHANGED <<processVars, markdownVars, fetcherVars, scrapeVars>>

\* reader.onerror of a pending read
ReaderFails(read) ==
    /\ preview' = [preview EXCEPT ![read.fileType] = "errorReading"]
    /\ pendingReads' = pendingReads (-) SetToBag({read})
    /\ handler' = "reader.onerror"
    /\ alertShown' = NoAlert
    /\ exported' = NoExport
    /\ UNCHANGED <<resumeContent, jobContent, resultContent, disabled,
                   pendingTimers, pendingRequests, userEvents>>
    /\ UNCHANGED <<processVars, markdownVars, fetcherVars, scrapeVars>>

\* generateTailoredResume(), up to setTimeout
GenerateTailoredResume ==
    /\ ~disabled["generateBtn"]
    /\ userEvents < MaxUserEvents
    /\ userEvents' = userEvents + 1
    /\ handler' = "generateTailoredResume"
    /\ exported' = NoExport
    /\ IF resumeContent = <<>> \/ jobContent = <<>>
       THEN /\ alertShown' = Chars("Please upload both resume and job description files")
            /\ UNCHANGED <<resultContent, disabled, pendingTimers>>
       ELSE /\ alertShown' = NoAlert
            /\ resultContent' = parseHTML(ProcessingIndicator)
            /\ disabled' = [disabled EXCEPT !["generateBtn"] = TRUE]
            /\ pendingTimers' = pendingTimers + 1
    /\ UNCHANGED <<resumeContent, jobContent, preview, pendingRequests, pendingReads>>
    /\ UNCHANGED <<processVars, markdownVars, fetcherVars, scrapeVars>>

\* One call processResume(r, jd), run from its first statement to its
\* return or to the exception of prioritizeSections.
ProcessResume(r, jd) ==
    /\ resume' = r
    /\ jobDescription' = jd
    /\ jobKeywords' \in extractKeywords(jd)
    /\ sections' = split(r, SectionSeparator)
    /\ relevantSections' = filterSections(sections', jobKeywords')
    /\ IF prioritizeThrows(relevantSections', jobKeywords')
       THEN /\ scoredSections' = <<>>
            /\ selectedSections' = <<>>
            /\ processedResume' = <<>>
            /\ pc' = "threw"
       ELSE /\ scoredSections' = sortByScore(scoreSections(relevantSections', jobKeywords'))
            /\ selectedSections' = selectSections(scoredSections')
            /\ processedResume' = header \o join(selectedSections', SectionSeparator)
            /\ pc' = "done"

\* the callback handed to setTimeout; an exception of processResume ends it
TimerFires ==
    /\ pendingTimers > 0
    /\ pendingTimers' = pendingTimers - 1
    /\ ProcessResume(resumeContent, jobContent)
    /\ IF pc' = "done"
       THEN /\ resultContent' = textNode(processedResume')
            /\ disabled' = [b \in Buttons |-> FALSE]
       ELSE UNCHANGED <<resultContent, disabled>>
    /\ handler' = "setTimeout callback"
    /\ alertShown' = NoAlert
    /\ exported' = NoExport
    /\ UNCHANGED <<resumeContent, jobContent, preview, pendingRequests,
                   pendingReads, userEvents>>
    /\ UNCHANGED <<markdownVars, fetcherVars, scrapeVars>>

\* downloadTailoredResumeAsTxt()
DownloadTailoredResumeAsTxt ==
    /\ ~disabled["downloadTxtBtn"]
    /\ userEvents < MaxUserEvents
    /\ userEvents' = userEvents + 1
    /\ handler' = "downloadTailoredResumeAsTxt"
    /\ LET content == textContent(resultContent)
       IN  IF content = <<>> \/ includes(content, InitialPlaceholder)
           THEN /\ alertShown' = NoResumeAlert
                /\ exported' = NoExport
           ELSE /\ alertShown' = NoAlert
                /\ exported' = [to |-> Chars("tailored_resume.txt"),
                                content |-> content, body |-> content]
    /\ UNCHANGED <<resumeContent, jobContent, resultContent, disabled, preview,
                   pendingTimers, pendingRequests, pendingReads>>
    /\ UNCHANGED <<processVars, markdownVars, fetcherVars, scrapeVars>>

\* downloadTailoredResumeAsMarkdown()
DownloadTailoredResumeAsMarkdown ==
    /\ ~disabled["downloadMdBtn"]
    /\ userEvents < MaxUserEvents
    /\ userEvents' = userEvents + 1
    /\ handler' = "downloadTailoredResumeAsMarkdown"
    /\ LET content == textContent(resultContent)
       IN  IF content = <<>> \/ includes(content, InitialPlaceholder)
           THEN /\ alertShown' = NoResumeAlert
                /\ exported' = NoExport
           ELSE /\ alertShown' = NoAlert
                /\ exported' = [to |-> Chars("tailored_resume.md"),
                                content |-> content,
                                body |-> convertToMarkdown(content)]
    /\ UNCHANGED <<resumeContent, jobContent, resultContent, disabled, preview,
                   pendingTimers, pendingRequests, pendingReads>>
    /\ UNCHANGED <<processVars, markdownVars, fetcherVars, scrapeVars>>

\* downloadTailoredResumeAsPdf(), up to fetch
DownloadTailoredResumeAsPdf ==
    /\ ~disabled["downloadPdfBtn"]
    /\ userEvents < MaxUserEvents
    /\ userEvents' = userEvents + 1
    /\ handler' = "downloadTailoredResumeAsPdf"
    /\ LET content == textContent(resultContent)
       IN  IF content = <<>> \/ includes(content, InitialPlaceholder)
           THEN /\ alertShown' = NoResumeAlert
                /\ exported' = NoExport
                /\ UNCHANGED <<resultContent, pendingRequests>>
           ELSE /\ alertShown' = NoAlert
                /\ exported' = [to |-> Chars("/convert-resume"), content |-> content,
                                body |-> convertToMarkdown(content)]
                /\ pendingRequests' = pendingRequests (+)
                       SetToBag({[content |-> content,
                                  markdownContent |-> convertToMarkdown(content),
                                  originalText |-> innerHTML(resultContent)]})
                /\ resultContent' = parseHTML(GeneratingPdfIndicator)
    /\ UNCHANGED <<resumeContent, jobContent, disabled, preview, pendingTimers,
                   pendingReads>>
    /\ UNCHANGED <<processVars, markdownVars, fetcherVars, scrapeVars>>

\* what the promise chain reports: nothing, "Error: <data.error>" or
\* "Network error: <error.message>" (the message itself is left out)
conversionAlert(outcome) ==
    CASE outcome = "success" -> NoAlert
      [] outcome = "refused" -> Chars("Error: ")
      [] OTHER               -> Chars("Network error: ")

\* the then and catch callbacks of a pending fetch
ConversionResponds(request, outcome) ==
    /\ resultContent' = parseHTML(request.originalText)
    /\ alertShown' = conversionAlert(outcome)
    /\ exported' = IF outcome = "success"
                   THEN [to |-> Chars("/download/"), content |-> request.content,
                         body |-> request.markdownContent]
                   ELSE NoExport
    /\ handler' = IF outcome \in {"success", "refused"} THEN "fetch.then" ELSE "fetch.catch"
    /\ pendingRequests' = pendingRequests (-) SetToBag({request})
    /\ UNCHANGED <<resumeContent, jobContent, disabled, preview, pendingTimers,
                   pendingReads, userEvents>>
    /\ UNCHANGED <<processVars, markdownVars, fetcherVars, scrapeVars>>

\* no call of processResume has been made
ProcessIdle ==
    /\ resume = <<>>
    /\ jobDescription = <<>>
    /\ jobKeywords = <<>>
    /\ sections = <<>>
    /\ relevantSections = <<>>
    /\ scoredSections = <<>>
    /\ selectedSections = <<>>
    /\ processedResume = <<>>
    /\ pc = "idle"

PageInit ==
    /\ PageLoaded
    /\ ProcessIdle
    /\ MarkdownIdle
    /\ FetcherIdle
    /\ ScrapeIdle

PageNext ==
    \/ \E fileType \in FileTypes :
           \E file \in PickableFiles[fileType] : HandleFileUpload(fileType, file)
    \/ \E read \in BagToSet(pendingReads) : ReaderLoads(read)
    \/ \E read \in BagToSet(pendingReads) : ReaderFails(read)
    \/ GenerateTailoredResume
    \/ TimerFires
    \/ DownloadTailoredResumeAsTxt
    \/ DownloadTailoredResumeAsMarkdown
    \/ DownloadTailoredResumeAsPdf
    \/ \E request \in BagToSet(pendingRequests) :
           \E outcome \in ConversionOutcomes : ConversionResponds(request, outcome)

PageSpec == PageInit /\ [][PageNext]_vars

(***************************************************************************)
(* convertToMarkdown(text), statement by statement.  markdownContent is    *)
(* kept as the list of what each pass of the loop appended (nothing for a  *)
(* section that is skipped); the string is their concatenation.            *)
(***************************************************************************)
MaxTextSections == 3

\* sections as they stand between the blank lines of a text
TextSectionPool ==
    { <<>>,
      Chars("JOHN DOE"),
      Chars(" SKILLS\n"),
      Chars("- AWS"),
      Chars("- 2020"),
      Chars("- built apis"),
      Chars("Summary of work"),
      Chars("Skills :\nJava:\nSQL"),
      Chars("TOOLS:\nGIT"),
      Chars("- Tools:\ngit") }

PlainTexts ==
    { join(ss, SectionSeparator) : ss \in SeqsUpTo(TextSectionPool, MaxTextSections) }

MarkdownInit ==
    /\ plainText \in PlainTexts
    /\ textSections = <<>>
    /\ sectionIndex = 0
    /\ markdownContent = <<>>
    /\ markdownPc = "start"
    /\ ProcessIdle
    /\ PageLoaded
    /\ FetcherIdle
    /\ ScrapeIdle

\* const sections = text.split("\n\n"); let markdownContent = ""
SplitText ==
    /\ markdownPc = "start"
    /\ textSections' = split(plainText, SectionSeparator)
    /\ sectionIndex' = 0
    /\ markdownContent' = <<>>
    /\ markdownPc' = "loop"
    /\ UNCHANGED <<plainText, processVars, pageVars, fetcherVars, scrapeVars>>

\* one pass of the loop body that takes the branch kind, then i++
ConvertSection(kind) ==
    /\ markdownPc = "loop"
    /\ sectionIndex < Len(textSections)
    /\ sectionKind(trim(textSections[sectionIndex + 1])) = kind
    /\ markdownContent' =
           Append(markdownContent,
                  sectionMarkdown(textSections[sectionIndex + 1], sectionIndex))
    /\ sectionIndex' = sectionIndex + 1
    /\ UNCHANGED <<plainText, textSections, markdownPc>>
    /\ UNCHANGED <<processVars, pageVars, fetcherVars, scrapeVars>>

\* return markdownContent
ReturnMarkdown ==
    /\ markdownPc = "loop"
    /\ sectionIndex = Len(textSections)
    /\ markdownPc' = "done"
    /\ UNCHANGED <<plainText, textSections, sectionIndex, markdownContent>>
    /\ UNCHANGED <<processVars, pageVars, fetcherVars, scrapeVars>>

MarkdownNext ==
    \/ SplitText
    \/ \E kind \in SectionKinds : ConvertSection(kind)
    \/ ReturnMarkdown

MarkdownSpec == MarkdownInit /\ [][MarkdownNext]_vars

(***************************************************************************)
(* The bulk URL fetcher.  Its code (job_scraper.py and the endpoint behind *)
(* /scrape-urls-file) is not among the sources; it is modelled from        *)
(* section 4.3 of the specification and from the README.                   *)
(***************************************************************************)
MaxUrlLines == 3

\* lines of a URL file: URLs that answer, a URL that answers 404, a malformed
\* one, one whose host is unreachable, one that answers now and then, and
\* blank lines
UrlLinePool ==
    { Chars("ok.io/a"), Chars(" ok.io/a-b"), Chars("ok.io/a_b"), Chars("ok.io/404"),
      Chars("no url"), Chars("down.io/x"), Chars("flaky.io/c"), <<>>, Chars("  ") }

UrlFiles == SeqsUpTo(UrlLinePool, MaxUrlLines)

\* blank lines ignored: the lines, trimmed, that are not empty
nonBlankUrls(lines) ==
    SelectSeq([k \in 1..Len(lines) |-> trim(lines[k])], LAMBDA line : line # <<>>)

\* the elements of a page, as the fetcher sees them after parsing
PageBody(url) ==
    << [tag |-> "script", text |-> Chars("var x")],
       [tag |-> "p", text |-> Chars("job at ") \o url],
       [tag |-> "style", text |-> Chars("p{}")] >>

\* what an HTTP GET of the URL can come to
httpGet(url) ==
    LET ok == [status |-> 200, error |-> <<>>, body |-> PageBody(url)]
        failed(status, error) == [status |-> status, error |-> error, body |-> <<>>]
    IN  IF InSeq(" ", url) THEN { failed(0, Chars("invalid URL")) }
        ELSE IF startsWith(url, Chars("down.io")) THEN { failed(0, Chars("connection failed")) }
        ELSE IF endsWith(url, Chars("/404")) THEN { failed(404, Chars("HTTP 404")) }
        ELSE IF startsWith(url, Chars("flaky.io")) THEN { ok, failed(0, Chars("timed out")), failed(503, Chars("HTTP 503")) }
        ELSE { ok }

\* step 2: a 2xx status and no network failure
isSuccess(response) == response.status >= 200 /\ response.status < 300

\* step 3: script and style elements are removed, the visible text is kept
extractText(body) ==
    Concat([k \in 1..Len(body) |->
               IF body[k].tag \in {"script", "style"} THEN <<>> ELSE body[k].text])

\* step 4: the file name derived from the URL, host and path sanitised
baseName(url) ==
    [k \in 1..Len(url) |->
        IF InSeq(url[k], LowerCase) \/ InSeq(url[k], UpperCase) \/ InSeq(url[k], Digits)
        THEN url[k] ELSE "_"]

FileNames(files) == { f.name : f \in files }

\* Variant of fileName: the name is never disambiguated.
fileNameNoSuffix(url, files) == baseName(url)

\* step 4: a name that is taken gets the first free numeric suffix
fileName(url, files) ==
    IF baseName(url) \notin FileNames(files) THEN baseName(url)
    ELSE LET free == { n \in 1..(Cardinality(files) + 1) :
                          baseName(url) \o <<"_", Digits[n + 1]>> \notin FileNames(files) }
         IN  baseName(url) \o <<"_", Digits[(CHOOSE n \in free : \A m \in free : n <= m) + 1]>>

\* step 5: the text is stored under the name in the output directory
writeFile(files, name, fileText) ==
    { f \in files : f.name # name } \cup { [name |-> name, text |-> fileText] }

\* Variant of nextUrlIndex: the batch ends at the first failure.
nextUrlIndexStopOnFailure(index, response, total) ==
    IF isSuccess(response) THEN index + 1 ELSE total

\* step 2: "continue to the next URL", whatever the outcome
nextUrlIndex(index, response, total) == index + 1

CountSuccess(records) == Len(SelectSeq(records, LAMBDA record : record.success))

\* Variant of summarize: the success count is raised for every record.
summarizeCountingEveryRecord(urlList, records) ==
    [total |-> Len(urlList), success |-> Len(records),
     failed |-> Len(records) - CountSuccess(records)]

\* step 6: total URLs, success count, failure count
summarize(urlList, records) ==
    [total |-> Len(urlList), success |-> CountSuccess(records),
     failed |-> Len(records) - CountSuccess(records)]

FetcherInit ==
    /\ urlLines \in UrlFiles
    /\ urls = <<>>
    /\ urlIndex = 0
    /\ results = <<>>
    /\ outputFiles = {}
    /\ summary = NoSummary
    /\ fetcherPc = "start"
    /\ ProcessIdle
    /\ PageLoaded
    /\ MarkdownIdle
    /\ ScrapeIdle

\* the URL list is read, blank lines ignored
ReadUrls ==
    /\ fetcherPc = "start"
    /\ urls' = nonBlankUrls(urlLines)
    /\ urlIndex' = 0
    /\ fetcherPc' = "fetching"
    /\ UNCHANGED <<urlLines, results, outputFiles, summary>>
    /\ UNCHANGED <<processVars, pageVars, markdownVars, scrapeVars>>

\* steps 1 and 3 to 5 for the next URL: the GET succeeds
FetchSucceeds ==
    /\ fetcherPc = "fetching"
    /\ urlIndex < Len(urls)
    /\ LET url == urls[urlIndex + 1]
       IN  \E response \in httpGet(url) :
               /\ isSuccess(response)
               /\ LET name == fileName(url, outputFiles)
                      fileText == extractText(response.body)
                  IN  /\ outputFiles' = writeFile(outputFiles, name, fileText)
                      /\ results' = Append(results,
                             [url |-> url, success |-> TRUE, filename |-> name,
                              text |-> fileText, error |-> <<>>])
               /\ urlIndex' = nextUrlIndex(urlIndex, response, Len(urls))
    /\ UNCHANGED <<urlLines, urls, summary, fetcherPc>>
    /\ UNCHANGED <<processVars, pageVars, markdownVars, scrapeVars>>

\* steps 1 and 2 for the next URL: a non-2xx status or a network failure
FetchFails ==
    /\ fetcherPc = "fetching"
    /\ urlIndex < Len(urls)
    /\ LET url == urls[urlIndex + 1]
       IN  \E response \in httpGet(url) :
               /\ ~isSuccess(response)
               /\ results' = Append(results,
                      [url |-> url, success |-> FALSE, filename |-> <<>>,
                       text |-> <<>>, error |-> response.error])
               /\ urlIndex' = nextUrlIndex(urlIndex, response, Len(urls))
    /\ UNCHANGED <<urlLines, urls, outputFiles, summary, fetcherPc>>
    /\ UNCHANGED <<processVars, pageVars, markdownVars, scrapeVars>>

\* step 6: the summary, once every URL has been worked through
Summarize ==
    /\ fetcherPc = "fetching"
    /\ urlIndex = Len(urls)
    /\ summary' = summarize(urls, results)
    /\ fetcherPc' = "done"
    /\ UNCHANGED <<urlLines, urls, urlIndex, results, outputFiles>>
    /\ UNCHANGED <<processVars, pageVars, markdownVars, scrapeVars>>

FetcherNext ==
    \/ ReadUrls
    \/ FetchSucceeds
    \/ FetchFails
    \/ Summarize

FetcherSpec == FetcherInit /\ [][FetcherNext]_vars

(***************************************************************************)
(* The bulk scraping part of the page (script.js 390-486).  Its handlers   *)
(* share no variable and no element with the handlers of the tailoring     *)
(* part, so they are explored on their own.  The answer of the endpoint is *)
(* one of the outcomes the promise chain tells apart; the data of a        *)
(* successful answer is left out.                                          *)
(***************************************************************************)
\* the tailoring part of the page, which these handlers leave alone
tailoringVars ==
    <<resumeContent, jobContent, resultContent, disabled, preview,
      pendingTimers, pendingRequests, pendingReads, exported>>

\* what a URL file can hold: URLs between blank and white-space-only lines,
\* lines ending in CR LF, one padded URL, nothing, white space only
UrlTexts ==
    { Chars("ok.io/a\n\n  \nno url\n"), Chars("ok.io/a\r\n\r\ndown.io/x"),
      Chars(" ok.io/404 "), <<>>, Chars("  \n\n\t") }

CsvSuffix == Chars(".csv")

\* event.target.files[0] of the URL file input
UrlsFiles ==
    [name : {Chars("urls.txt")}, content : UrlTexts]
      \cup { [name |-> Chars("JOBS.CSV"), content |-> Chars(" ok.io/404 ")],
             [name |-> Chars("urls.csv.json"), content |-> Chars(" ok.io/404 ")] }

NoUrlsFile == [name |-> <<>>, content |-> <<>>]

PickableUrlsFiles == UrlsFiles \cup {NoUrlsFile}

\* Variant of isUrlsFile: includes in place of endsWith.
isUrlsFileNameIncludes(file) ==
    ~(/\ ~includes(toLowerCase(file.name), TxtSuffix)
      /\ ~includes(toLowerCase(file.name), CsvSuffix))

\* the file passes the test of line 400
isUrlsFile(file) ==
    ~(/\ ~endsWith(toLowerCase(file.name), TxtSuffix)
      /\ ~endsWith(toLowerCase(file.name), CsvSuffix))

\* content.split("\n").map(line => line.trim()).filter(line => line.length > 0)
parseUrls(content) ==
    LET lines == split(content, <<"\n">>)
    IN  SelectSeq([k \in 1..Len(lines) |-> trim(lines[k])],
                  LAMBDA line : Len(line) > 0)

\* what urlsPreview shows: a message, and for a loaded file the number of
\* URLs found and the first ten of them
urlsPreviewOf(shows, urlList) ==
    [shows |-> shows, found |-> Len(urlList), urls |-> slice(urlList, 10)]

\* what the promise chain of fetch("/scrape-urls-file") can run into: data
\* with success true, such data without a summary (displayScrapingResults
\* throws), data with success false, a body that is no JSON, a failed call
ScrapeOutcomes == {"success", "malformed", "refused", "unparsable", "networkError"}

ScrapeInit ==
    /\ ScrapeIdle
    /\ PageLoaded
    /\ ProcessIdle
    /\ MarkdownIdle
    /\ FetcherIdle

\* handleUrlsFileUpload(event), up to reader.readAsText
HandleUrlsFileUpload(file) ==
    /\ userEvents < MaxUserEvents
    /\ userEvents' = userEvents + 1
    /\ handler' = "handleUrlsFileUpload"
    /\ alertShown' = NoAlert
    /\ IF file = NoUrlsFile
       THEN UNCHANGED <<urlsPreview, pendingUrlReads>>
       ELSE IF ~isUrlsFile(file)
       THEN /\ urlsPreview' = urlsPreviewOf("errorNotUrlsFile", <<>>)
            /\ UNCHANGED pendingUrlReads
       ELSE /\ urlsPreview' = urlsPreviewOf("loading", <<>>)
            /\ pendingUrlReads' = pendingUrlReads (+) SetToBag({file})
    /\ UNCHANGED <<urlsFileContent, scrapeUrlsBtn, resultsSummary, pendingScrapes>>
    /\ UNCHANGED <<tailoringVars, processVars, markdownVars, fetcherVars>>

\* reader.onload of a pending read of a URL file
UrlsReaderLoads(read) ==
    /\ LET urlList == parseUrls(read.content)
       IN  IF Len(urlList) = 0
           THEN /\ urlsPreview' = urlsPreviewOf("errorNoUrls", <<>>)
                /\ UNCHANGED <<urlsFileContent, scrapeUrlsBtn>>
           ELSE /\ urlsPreview' = urlsPreviewOf("loaded", urlList)
                /\ urlsFileContent' = read.content
                /\ scrapeUrlsBtn' = [scrapeUrlsBtn EXCEPT !.disabled = FALSE]
    /\ pendingUrlReads' = pendingUrlReads (-) SetToBag({read})
    /\ handler' = "urls reader.onload"
    /\ alertShown' = NoAlert
    /\ UNCHANGED <<resultsSummary, pendingScrapes, userEvents>>
    /\ UNCHANGED <<tailoringVars, processVars, markdownVars, fetcherVars>>

\* reader.onerror of a pending read of a URL file
UrlsReaderFails(read) ==
    /\ urlsPreview' = urlsPreviewOf("errorReading", <<>>)
    /\ pendingUrlReads' = pendingUrlReads (-) SetToBag({read})
    /\ handler' = "urls reader.onerror"
    /\ alertShown' = NoAlert
    /\ UNCHANGED <<urlsFileContent, scrapeUrlsBtn, resultsSummary, pendingScrapes,
                   userEvents>>
    /\ UNCHANGED <<tailoringVars, processVars, markdownVars, fetcherVars>>

\* scrapeBulkUrls(), up to fetch
ScrapeBulkUrls ==
    /\ ~scrapeUrlsBtn.disabled
    /\ userEvents < MaxUserEvents
    /\ userEvents' = userEvents + 1
    /\ handler' = "scrapeBulkUrls"
    /\ IF urlsFileContent = <<>>
       THEN /\ alertShown' = Chars("Please upload a URLs file first")
            /\ UNCHANGED <<scrapeUrlsBtn, resultsSummary, pendingScrapes>>
       ELSE /\ alertShown' = NoAlert
            /\ scrapeUrlsBtn' = [disabled |-> TRUE, textContent |-> ScrapingLabel]
            /\ resultsSummary' = [summary |-> "processing", details |-> "none"]
            /\ pendingScrapes' = pendingScrapes (+)
                   SetToBag({[urls_file |-> urlsFileContent]})
    /\ UNCHANGED <<urlsFileContent, urlsPreview, pendingUrlReads>>
    /\ UNCHANGED <<tailoringVars, processVars, markdownVars, fetcherVars>>

\* what the then and catch callbacks leave in the results area
scrapeSummary(outcome, shown) ==
    CASE outcome = "success" -> [summary |-> "complete", details |-> "listed"]
      [] outcome = "refused" -> [shown EXCEPT !.summary = "error"]
      [] OTHER               -> [shown EXCEPT !.summary = "networkError"]

\* the finally callback: the button is reset whatever the outcome
scrapeButtonAfter(outcome, button) ==
    [disabled |-> FALSE, textContent |-> ScrapeLabel]

\* the then, catch and finally callbacks of a pending fetch
ScrapeResponds(request, outcome) ==
    /\ resultsSummary' = scrapeSummary(outcome, resultsSummary)
    /\ scrapeUrlsBtn' = scrapeButtonAfter(outcome, scrapeUrlsBtn)
    /\ pendingScrapes' = pendingScrapes (-) SetToBag({request})
    /\ handler' = "scrape fetch.finally"
    /\ alertShown' = NoAlert
    /\ UNCHANGED <<urlsFileContent, urlsPreview, pendingUrlReads, userEvents>>
    /\ UNCHANGED <<tailoringVars, processVars, markdownVars, fetcherVars>>

ScrapeNext ==
    \/ \E file \in PickableUrlsFiles : HandleUrlsFileUpload(file)
    \/ \E read \in BagToSet(pendingUrlReads) : UrlsReaderLoads(read)
    \/ \E read \in BagToSet(pendingUrlReads) : UrlsReaderFails(read)
    \/ ScrapeBulkUrls
    \/ \E request \in BagToSet(pendingScrapes) :
           \E outcome \in ScrapeOutcomes : ScrapeResponds(request, outcome)

ScrapeSpec == ScrapeInit /\ [][ScrapeNext]_vars

(***************************************************************************)
(* Properties.  Their vocabulary is defined here, apart from the           *)
(* operators that model the code.                                          *)
(***************************************************************************)
Extracted == pc # "start"

Returned == pc \in {"prioritized", "done"}

IsLowerCase(w) == \A i \in 1..Len(w) : ~InSeq(w[i], UpperCase)

SameIgnoringCase(a, b) ==
    \/ a = b
    \/ \E i \in 1..Len(UpperCase) :
          {a, b} = {UpperCase[i], LowerCase[i]}

\* t occurs in s at position i, ignoring case
OccursAt(s, t, i) ==
    /\ i + Len(t) - 1 <= Len(s)
    /\ \A k \in 1..Len(t) : SameIgnoringCase(s[i + k - 1], t[k])

ContainsIgnoringCase(s, t) == \E i \in 1..Len(s) : OccursAt(s, t, i)

ContainsAKeyword(section) ==
    \E k \in 1..Len(jobKeywords) :
        jobKeywords[k] # <<>> /\ ContainsIgnoringCase(section, jobKeywords[k])

\* the number of times word w occurs among the filtered tokens of the text
Frequency(w) ==
    LET tokens == filteredWords(jobDescription)
    IN  Cardinality({ i \in 1..Len(tokens) : tokens[i] = w })

FirstSeen(w) ==
    LET tokens == filteredWords(jobDescription)
    IN  CHOOSE i \in 1..Len(tokens) :
            tokens[i] = w /\ \A j \in 1..(i - 1) : tokens[j] # w

Rank(w) ==
    IF \E i \in 1..Len(jobKeywords) : jobKeywords[i] = w
    THEN CHOOSE i \in 1..Len(jobKeywords) : jobKeywords[i] = w
    ELSE 0

\* C1: extractKeywords returns at most 15 entries, each lowercase, longer
\* than 3 characters and outside the stop-word set, and no entry twice.
C1_KeywordListWellFormed ==
    Extracted =>
        /\ Len(jobKeywords) <= 15
        /\ \A i \in 1..Len(jobKeywords) :
              /\ IsLowerCase(jobKeywords[i])
              /\ length(jobKeywords[i]) > 3
              /\ jobKeywords[i] \notin commonWords
        /\ \A i, j \in 1..Len(jobKeywords) :
              i # j => jobKeywords[i] # jobKeywords[j]

\* C1 witness: 15 keywords cut from more than 15 different words, one of them
\* repeated, of a text that holds upper-case letters and a stop word.
C1_Witness ==
    /\ pc = "extracted"
    /\ Len(jobKeywords) = 15
    /\ LET tokens == filteredWords(jobDescription)
       IN  /\ Cardinality({ tokens[i] : i \in 1..Len(tokens) }) > 15
           /\ Len(tokens) > Cardinality({ tokens[i] : i \in 1..Len(tokens) })
    /\ \E i \in 1..Len(jobDescription) : InSeq(jobDescription[i], UpperCase)
    /\ LET tokens == words(jobDescription)
       IN  \E i \in 1..Len(tokens) : tokens[i] \in commonWords

\* C2: the list returned by extractKeywords is ordered by descending token
\* frequency, and tokens of equal frequency are in the order of their first
\* occurrence in the text, digit-only tokens included.
C2_FrequencyThenFirstSeen ==
    Extracted =>
        \A i, j \in 1..Len(jobKeywords) :
            i < j =>
                \/ Frequency(jobKeywords[i]) > Frequency(jobKeywords[j])
                \/ /\ Frequency(jobKeywords[i]) = Frequency(jobKeywords[j])
                   /\ FirstSeen(jobKeywords[i]) < FirstSeen(jobKeywords[j])

\* C3 as stated: for the fox sentence, "software" and "engineer" rank above
\* "quick" and "brown", and the result holds neither "the" nor "over".
C3_FoxExcludesOver ==
    Extracted /\ jobDescription = FoxText =>
        /\ \A hi \in {Chars("software"), Chars("engineer")} :
             \A lo \in {Chars("quick"), Chars("brown")} :
                 Rank(hi) > 0 /\ Rank(hi) < Rank(lo)
        /\ Rank(Chars("the")) = 0
        /\ Rank(Chars("over")) = 0

\* C3 amended: for the fox sentence, "software" and "engineer" rank above
\* "quick" and "brown", the result does not hold "the", and it does hold
\* "over", which has four characters and is not in the stop-word set.
C3_FoxKeepsOver ==
    Extracted /\ jobDescription = FoxText =>
        /\ \A hi \in {Chars("software"), Chars("engineer")} :
             \A lo \in {Chars("quick"), Chars("brown")} :
                 Rank(hi) > 0 /\ Rank(hi) < Rank(lo)
        /\ Rank(Chars("the")) = 0
        /\ Rank(Chars("over")) > 0

\* C3 witness: extractKeywords has run on the fox sentence.
C3_Witness ==
    /\ pc = "extracted"
    /\ jobDescription = FoxText
    /\ Len(jobKeywords) > 0

\* C4: every selected section contains at least one keyword as a
\* case-insensitive substring, and when no section of the resume contains a
\* keyword the selection is empty.
C4_SelectedContainKeyword ==
    Returned =>
        /\ \A i \in 1..Len(selectedSections) : ContainsAKeyword(selectedSections[i])
        /\ (\A i \in 1..Len(sections) : ~ContainsAKeyword(sections[i]))
              => selectedSections = <<>>

\* C4 witness: a selection that keeps some sections of the resume and drops
\* a section that holds no keyword.
C4_Witness ==
    /\ pc = "done"
    /\ selectedSections # <<>>
    /\ \E i \in 1..Len(sections) : ~ContainsAKeyword(sections[i])

\* C5: when at least one section passes the keyword filter, the selection
\* prioritizeSections returns is not empty, whatever the section lengths.
C5_AtLeastOneSelected ==
    Returned /\ (\E i \in 1..Len(sections) : ContainsAKeyword(sections[i]))
        => selectedSections # <<>>

\* C5 witness: every candidate is longer than the budget and one is selected.
C5_Witness ==
    /\ pc = "prioritized"
    /\ scoredSections # <<>>
    /\ \A i \in 1..Len(scoredSections) : length(scoredSections[i].section) > 1500
    /\ selectedSections # <<>>

SelectedTotal ==
    SumOver([i \in 1..Len(selectedSections) |-> length(selectedSections[i])])
        + 2 * (Len(selectedSections) - 1)

\* C6: the selected section lengths plus 2 x (n - 1) separator characters
\* are at most 1500, except when the selection is exactly one section that
\* is itself longer than 1500 characters.
C6_WithinBudget ==
    Returned =>
        \/ SelectedTotal <= 1500
        \/ Len(selectedSections) = 1 /\ length(selectedSections[1]) > 1500

\* C6 witness: two sections that fill the budget to the last character.
C6_Witness ==
    /\ pc = "prioritized"
    /\ Len(selectedSections) = 2
    /\ SelectedTotal = 1500

\* the place in the resume of the candidate that the filter kept at pos
RECURSIVE KeptPlaces(_)
KeptPlaces(i) ==
    IF i > Len(sections) THEN <<>>
    ELSE IF ContainsAKeyword(sections[i]) THEN <<i>> \o KeptPlaces(i + 1)
    ELSE KeptPlaces(i + 1)

PlaceInResume(i) == KeptPlaces(1)[scoredSections[i].pos]

\* C7: the returned sections are in non-increasing order of score, and two
\* sections of equal score are in the order they had in the resume.
C7_ScoreOrderStable ==
    Returned =>
        /\ Len(selectedSections) <= Len(scoredSections)
        /\ \A i \in 1..Len(selectedSections) :
              /\ selectedSections[i] = scoredSections[i].section
              /\ sections[PlaceInResume(i)] = selectedSections[i]
        /\ \A i, j \in 1..Len(selectedSections) :
              i < j =>
                  \/ scoredSections[i].score > scoredSections[j].score
                  \/ /\ scoredSections[i].score = scoredSections[j].score
                     /\ PlaceInResume(i) < PlaceInResume(j)

\* C7 witness: a selection that is not in document order and that holds two
\* sections of equal score.
C7_Witness ==
    /\ pc = "prioritized"
    /\ \E i, j \in 1..Len(selectedSections) :
          i < j /\ PlaceInResume(i) > PlaceInResume(j)
    /\ \E i, j \in 1..Len(selectedSections) :
          i < j /\ scoredSections[i].score = scoredSections[j].score

\* C8: if the highest-ranked candidate alone is longer than 1500 characters,
\* prioritizeSections returns exactly that section, even when later
\* candidates are short.
C8_OversizedFirstAlone ==
    Returned /\ scoredSections # <<>> /\ length(scoredSections[1].section) > 1500
        => selectedSections = <<scoredSections[1].section>>

\* C8 witness: the first candidate is oversized and a later one would fit.
C8_Witness ==
    /\ pc = "prioritized"
    /\ Len(scoredSections) >= 2
    /\ length(scoredSections[1].section) > 1500
    /\ \E i \in 2..Len(scoredSections) : length(scoredSections[i].section) <= 1500
    /\ Len(selectedSections) = 1

\* the occurrences of keyword in section as a literal string, ignoring case,
\* counted left to right without overlap
RECURSIVE OccurrencesFrom(_, _, _)
OccurrencesFrom(section, keyword, i) ==
    IF i > Len(section) THEN 0
    ELSE IF OccursAt(section, keyword, i)
         THEN 1 + OccurrencesFrom(section, keyword, i + Len(keyword))
         ELSE OccurrencesFrom(section, keyword, i + 1)

LiteralScore(section) ==
    SumOver([k \in 1..Len(jobKeywords) |-> OccurrencesFrom(section, jobKeywords[k], 1)])

\* C9: for every keyword list extractKeywords can produce, the score of a
\* section is the sum over the keywords of the case-insensitive occurrences
\* of the keyword, taken as a literal string, in the section.
C9_ScoreCountsLiteralOccurrences ==
    Returned =>
        \A i \in 1..Len(scoredSections) :
            scoredSections[i].score = LiteralScore(scoredSections[i].section)

NoKeywordTokens ==
    LET tokens == words(jobDescription)
    IN  \A i \in 1..Len(tokens) : length(tokens[i]) <= 3 \/ tokens[i] \in commonWords

\* C10: for a job description that is empty or holds only stop words and
\* tokens of at most 3 characters, extractKeywords returns the empty list
\* and processResume selects no section and returns no resume content.
C10_NoKeywordsNoSections ==
    NoKeywordTokens =>
        /\ Extracted => jobKeywords = <<>>
        /\ pc # "threw"
        /\ Returned => selectedSections = <<>>
        /\ pc = "done" => processedResume = <<>>

\* C10 witness: processResume has returned the empty string for a resume
\* with content and a job description of stop words and short tokens.
C10_Witness ==
    /\ pc = "done"
    /\ NoKeywordTokens
    /\ jobDescription # <<>>
    /\ \E i \in 1..Len(sections) : sections[i] # <<>>
    /\ processedResume = <<>>

\* the budget the first k candidates use up, separators included
UsedBy(k) ==
    SumOver([i \in 1..k |-> length(scoredSections[i].section)]) + 2 * k

\* candidate i does not fit in what the candidates before it leave
DoesNotFit(i) == UsedBy(i - 1) + length(scoredSections[i].section) > 1500

\* the places of the candidates at which the ranked list stops fitting
Misfits == { i \in 1..Len(scoredSections) : DoesNotFit(i) }

FirstMisfit == CHOOSE i \in Misfits : \A j \in Misfits : i <= j

\* C23: the result of prioritizeSections is a prefix of the score-ranked
\* candidate list: the selection stops at the first candidate that does not
\* fit in the remaining budget (that candidate is kept only when it is the
\* first of all), and no lower-ranked candidate is included after it, even
\* one that would fit.
C23_SelectionIsRankedPrefix ==
    Returned =>
        LET n == IF Misfits = {} THEN Len(scoredSections)
                 ELSE IF FirstMisfit = 1 THEN 1
                 ELSE FirstMisfit - 1
        IN  selectedSections = [i \in 1..n |-> scoredSections[i].section]

\* C23 witness: the selection stopped at a candidate that does not fit, and
\* a candidate ranked below it would have fitted in the remaining budget.
C23_Witness ==
    /\ pc = "prioritized"
    /\ Misfits # {}
    /\ FirstMisfit > 1
    /\ Len(selectedSections) = FirstMisfit - 1
    /\ \E j \in (FirstMisfit + 1)..Len(scoredSections) :
          UsedBy(FirstMisfit - 1) + length(scoredSections[j].section) <= 1500

\* the text in lower case without the characters of the punctuation set
Stripped(text) ==
    LET kept == SelectSeq([i \in 1..Len(text) |-> i],
                          LAMBDA i : text[i] \notin Punctuation)
    IN  [k \in 1..Len(kept) |-> toLowerChar(text[kept[k]])]

\* position k of t lies in a run of two or more white-space characters
InWhiteRun(t, k) ==
    /\ t[k] \in Whitespace
    /\ \/ k > 1 /\ t[k - 1] \in Whitespace
       \/ k < Len(t) /\ t[k + 1] \in Whitespace

\* the places where a token ends: a space on its own, and the start of a run
TokenBreaks(t) ==
    { k \in 1..Len(t) :
        \/ t[k] = " " /\ ~InWhiteRun(t, k)
        \/ InWhiteRun(t, k) /\ (k = 1 \/ t[k - 1] \notin Whitespace) }

\* the tokens of a text: what stands between two breaks, the rest of a run
\* of white space left out
ExpectedTokens(text) ==
    LET t == Stripped(text)
        breaks == TokenBreaks(t)
        solid == SelectSeq([k \in 1..Len(t) |-> k], LAMBDA k : ~InWhiteRun(t, k) /\ k \notin breaks)
        tokenOf == [k \in 1..Len(t) |-> 1 + Cardinality({ b \in breaks : b < k })]
    IN  [n \in 1..(Cardinality(breaks) + 1) |->
            LET mine == SelectSeq(solid, LAMBDA k : tokenOf[k] = n)
            IN  [m \in 1..Len(mine) |-> t[mine[m]]]]

IsWordChar(c) == c \notin Punctuation /\ c \notin Whitespace

\* some token holds a, then what stands in between, then b
SomeTokenHolds(tokens, piece) ==
    \E n \in 1..Len(tokens) : includes(tokens[n], piece)

\* C24: extractKeywords deletes the characters of the punctuation set
\* without putting a space in their place, and splits the text at the space
\* characters that are left once each run of two or more white-space
\* characters has become one space; so two words with only a deleted
\* character between them, or only one newline or one tab, are one token.
C24_TokensSplitAtSpacesOnly ==
    pc = "extracted" =>
        LET tokens == words(jobDescription)
            jd == jobDescription
        IN  /\ tokens = ExpectedTokens(jd)
            /\ \A k \in 1..Len(jobKeywords) :
                  \E n \in 1..Len(tokens) : tokens[n] = jobKeywords[k]
            /\ \A i \in 2..(Len(jd) - 1) :
                  (IsWordChar(jd[i - 1]) /\ IsWordChar(jd[i + 1])) =>
                      /\ jd[i] \in Punctuation =>
                            SomeTokenHolds(tokens,
                                <<toLowerChar(jd[i - 1]), toLowerChar(jd[i + 1])>>)
                      /\ jd[i] \in {"\n", "\t"} =>
                            SomeTokenHolds(tokens,
                                <<toLowerChar(jd[i - 1]), jd[i], toLowerChar(jd[i + 1])>>)

HasKeyword(w) == \E k \in 1..Len(jobKeywords) : jobKeywords[k] = w

\* C24 witness: keywords made of two words that a hyphen, a newline or a
\* tab stood between.
C24_Witness ==
    /\ pc = "extracted"
    /\ \/ HasKeyword(Chars("devops")) /\ HasKeyword(Chars("team\nlead"))
       \/ HasKeyword(Chars("full\tstack")) /\ HasKeyword(Chars("nodejs"))

\* C25: for every keyword list extractKeywords can produce, keywords with
\* characters such as + that the first replace leaves in place included,
\* prioritizeSections returns and raises no error, and every section that
\* passed the substring filter of processResume has a score of at least 1.
C25_PrioritizeReturnsWithPositiveScores ==
    /\ pc # "threw"
    /\ Returned =>
           /\ Len(scoredSections) = Len(relevantSections)
           /\ \A i \in 1..Len(scoredSections) : scoredSections[i].score >= 1

\* where the i-th selected section starts in the text returned
StartOfSelected(i) ==
    SumOver([j \in 1..(i - 1) |-> Len(selectedSections[j]) + 2]) + 1

\* the selected sections stand in the text returned as they are, each taken
\* from a place of its own in the resume, two newlines between them and
\* nothing else
SelectedJoinedVerbatim ==
    /\ \A i \in 1..Len(selectedSections) :
          /\ selectedSections[i] = sections[PlaceInResume(i)]
          /\ SubSeq(processedResume, StartOfSelected(i),
                    StartOfSelected(i) + Len(selectedSections[i]) - 1)
                 = selectedSections[i]
          /\ i > 1 => SubSeq(processedResume, StartOfSelected(i) - 2,
                             StartOfSelected(i) - 1) = <<"\n", "\n">>
    /\ \A i, j \in 1..Len(selectedSections) :
          i # j => PlaceInResume(i) # PlaceInResume(j)
    /\ Len(processedResume) = StartOfSelected(Len(selectedSections) + 1) - 3

EndsWithNewline(section) == section # <<>> /\ section[Len(section)] = "\n"

\* C29 as claimed: processResume returns the selected sections verbatim,
\* each from a distinct position of the resume split on two newlines, joined
\* by two newlines with nothing added; whenever a section is selected,
\* splitting the text returned on two newlines gives back the selected
\* sections in ranked order.
C29_SplitGivesBackSelection ==
    (pc = "done" /\ selectedSections # <<>>) =>
        /\ SelectedJoinedVerbatim
        /\ split(processedResume, <<"\n", "\n">>) = selectedSections

\* C29 as amended: the same, the split giving back the selection whenever
\* no selected section but the last one ends with a newline.
C29_SplitGivesBackUnlessNewlineEnds ==
    (pc = "done" /\ selectedSections # <<>>) =>
        /\ SelectedJoinedVerbatim
        /\ (\A i \in 1..(Len(selectedSections) - 1) :
                ~EndsWithNewline(selectedSections[i]))
              => split(processedResume, <<"\n", "\n">>) = selectedSections

\* C29 witness: a text returned with two sections that changed places, one
\* of them beginning with a newline.
C29_Witness ==
    /\ pc = "done"
    /\ Len(selectedSections) >= 2
    /\ PlaceInResume(1) > PlaceInResume(2)
    /\ \E i \in 1..Len(selectedSections) : selectedSections[i][1] = "\n"

(***************************************************************************)
(* Properties of the page.                                                 *)
(***************************************************************************)
\* C11: whatever the outcome of a PDF-conversion request (success, a
\* response with success false, a network failure, an unparsable response),
\* its callback leaves the result area with exactly the text it held when
\* the PDF button was clicked, and every outcome but success shows an alert.
C11_ConversionRestoresContent ==
    [][\A request \in BagToSet(pendingRequests) : \A outcome \in ConversionOutcomes :
          ConversionResponds(request, outcome) =>
              /\ textContent(resultContent') = request.content
              /\ outcome # "success" => alertShown' # NoAlert]_vars

NothingPending == pendingTimers = 0 /\ pendingRequests = EmptyBag

\* C12: whatever the interleaving of generate clicks, PDF clicks, timers and
\* conversion responses, once no timer and no request is pending the result
\* area holds the resume generated last, not a loading indicator and not an
\* older resume.  It is stated for the runs whose last processResume call
\* returned, and the texts are compared up to their line endings.
C12_LatestResumeShown ==
    (NothingPending /\ pc = "done") =>
        /\ resultContent.element = "#text"
        /\ normalizeNewlines(textContent(resultContent))
               = normalizeNewlines(processedResume)

\* C13: processResume is never called with an empty resume or an empty job
\* description, whatever the interleaving of uploads, generate clicks and
\* timers (resume and jobDescription are the arguments of the last call).
C13_NeverProcessesEmptyInput ==
    pc \in {"done", "threw"} => resume # <<>> /\ jobDescription # <<>>

C15_TimerShowsResume ==
    /\ (handler = "generateTailoredResume" /\ alertShown = NoAlert) => pendingTimers > 0
    /\ handler = "setTimeout callback" =>
           /\ pc = "done"
           /\ resultContent = textNode(processedResume)
           /\ \A b \in Buttons : ~disabled[b]

\* C26: at most one generation timer is pending at any time, and from the
\* click that sets the timer until the timer fires the generate button
\* stays disabled, whatever file reads complete in between.
C26_OneTimerButtonDisabled ==
    /\ pendingTimers <= 1
    /\ pendingTimers > 0 => disabled["generateBtn"]

DownloadHandlers ==
    {"downloadTailoredResumeAsTxt", "downloadTailoredResumeAsMarkdown",
     "downloadTailoredResumeAsPdf"}

\* the texts of the two loading indicators
LoadingTexts ==
    { Chars("Processing... Please wait."), Chars("Generating PDF... Please wait.") }

\* C27: a click on one of the three download buttons either raises the
\* alert "No resume to download" or exports the text that processResume
\* produced, never the "Processing..." or "Generating PDF..." indicator.
C27_DownloadsNeverExportIndicator ==
    handler \in DownloadHandlers =>
        \/ alertShown = NoResumeAlert /\ exported = NoExport
        \/ /\ alertShown = NoAlert
           /\ exported # NoExport
           /\ exported.content \notin LoadingTexts

\* C30: in every state reached by uploads, generate clicks and timers, the
\* generate button is enabled only if the stored resume content and the
\* stored job-description content are both non-empty.
C30_EnabledOnlyWithBothContents ==
    ~disabled["generateBtn"] => (resumeContent # <<>> /\ jobContent # <<>>)

(***************************************************************************)
(* Properties of convertToMarkdown.                                        *)
(***************************************************************************)
Converted == markdownPc = "done"

\* the k-th section of the text, trimmed
TrimmedSection(k) == trim(textSections[k])

AllUpperCase(section) ==
    section # <<>> /\ \A n \in 1..Len(section) : ~InSeq(section[n], LowerCase)

FirstNonEmpty(k) ==
    TrimmedSection(k) # <<>> /\ \A n \in 1..(k - 1) : TrimmedSection(n) = <<>>

BeginsListItem(section) ==
    Len(section) >= 2 /\ section[1] = "-" /\ section[2] = " "

\* s with a blank line after it
Block(s) == s \o <<"\n", "\n">>

\* C16: the first non-empty section of the text, when all upper case, is
\* emitted as the level-1 heading "# SECTION" and every later all-upper-case
\* section as the level-2 heading "## SECTION", also when the text begins
\* with blank lines.  Sections that begin with "- " are left to C17.
C16_FirstHeadingLevelOne ==
    Converted =>
        \A k \in 1..Len(textSections) :
            (AllUpperCase(TrimmedSection(k)) /\ ~BeginsListItem(TrimmedSection(k))) =>
                markdownContent[k] =
                    IF FirstNonEmpty(k)
                    THEN Block(<<"#", " ">> \o TrimmedSection(k))
                    ELSE Block(<<"#", "#", " ">> \o TrimmedSection(k))

\* C17: every section that begins with "- " is emitted unchanged as a list
\* item, without a heading marker, also when its letters are all upper case
\* or when it holds no letter ("- AWS", "- 2020").
C17_ListItemsUnchanged ==
    Converted =>
        \A k \in 1..Len(textSections) :
            BeginsListItem(TrimmedSection(k)) =>
                markdownContent[k] = Block(TrimmedSection(k))

\* the place of the first colon that a newline follows, 0 when there is none
FirstColonNewline(section) ==
    LET places == { n \in 1..(Len(section) - 1) :
                        section[n] = ":" /\ section[n + 1] = "\n" }
    IN  IF places = {} THEN 0 ELSE CHOOSE n \in places : \A m \in places : n <= m

\* "### ", the trimmed text before the first colon-newline, a blank line,
\* all the text after that colon-newline, a blank line
TitleAndBody(section) ==
    LET n == FirstColonNewline(section)
    IN  Block(<<"#", "#", "#", " ">> \o trim(SubSeq(section, 1, n - 1)))
            \o Block(SubSeq(section, n + 2, Len(section)))

FetchDone == fetcherPc = "done"

IsBlank(line) == \A n \in 1..Len(line) : line[n] \in TrimSpace

\* the places of the lines of the file that are not blank, in order
RECURSIVE NonBlankPlaces(_)
NonBlankPlaces(n) ==
    IF n = 0 THEN <<>>
    ELSE IF IsBlank(urlLines[n]) THEN NonBlankPlaces(n - 1)
    ELSE Append(NonBlankPlaces(n - 1), n)

\* C19: a failure on one URL (a non-2xx status or a network error) never
\* stops the batch: each non-blank line of the input yields exactly one
\* result record, the records are in input order, and every URL after a
\* failed one has its record too.
C19_EveryUrlRecordedInOrder ==
    FetchDone =>
        LET places == NonBlankPlaces(Len(urlLines))
        IN  /\ Len(results) = Len(places)
            /\ \A k \in 1..Len(places) : results[k].url = trim(urlLines[places[k]])

\* C19 witness: a finished run over a list with a blank line in which a
\* URL that failed is followed by a URL that was fetched.
C19_Witness ==
    /\ FetchDone
    /\ \E n \in 1..Len(urlLines) : IsBlank(urlLines[n])
    /\ \E k \in 1..(Len(results) - 1) : ~results[k].success /\ results[k + 1].success

ExampleUrlLines == << Chars("ok.io/a"), Chars("no url"), Chars("down.io/x") >>

\* C20: the summary of a run has total = number of non-blank input lines =
\* success + failed, success is the number of records flagged successful,
\* and as many text files are written as URLs succeeded; a list of a valid,
\* a malformed and an unreachable URL gives 3, 1, 2 and one file.
C20_SummaryCounts ==
    FetchDone =>
        /\ summary.total = Cardinality({ n \in 1..Len(urlLines) : ~IsBlank(urlLines[n]) })
        /\ summary.total = summary.success + summary.failed
        /\ summary.success = Cardinality({ k \in 1..Len(results) : results[k].success })
        /\ Cardinality(outputFiles) = summary.success
        /\ urlLines = ExampleUrlLines =>
               /\ summary = [total |-> 3, success |-> 1, failed |-> 2]
               /\ Cardinality(outputFiles) = 1

\* C20 witness: the run over the list of the example has finished.
C20_Witness ==
    /\ FetchDone
    /\ urlLines = ExampleUrlLines
    /\ results[1].success /\ ~results[2].success /\ ~results[3].success

\* C21: two successfully fetched URLs of one run never share an output file
\* name; when the names derived from two URLs collide (the same URL listed
\* twice included) the later one is disambiguated and the earlier file is
\* not overwritten: every successful record still has its file, with its text.
C21_OutputFilesNeverCollide ==
    /\ \A i, j \in 1..Len(results) :
          (i < j /\ results[i].success /\ results[j].success) =>
              results[i].filename # results[j].filename
    /\ \A i \in 1..Len(results) :
          results[i].success =>
              [name |-> results[i].filename, text |-> results[i].text] \in outputFiles
    /\ Cardinality(outputFiles)
           = Cardinality({ i \in 1..Len(results) : results[i].success })

\* C21 witness: a finished run that fetched two different URLs with the same
\* derived name and fetched one URL twice.
C21_Witness ==
    /\ FetchDone
    /\ \E i, j \in 1..Len(results) :
          /\ i < j /\ results[i].success /\ results[j].success
          /\ results[i].url # results[j].url
          /\ baseName(results[i].url) = baseName(results[j].url)
    /\ \E i, j \in 1..Len(results) :
          /\ i < j /\ results[i].success /\ results[j].success
          /\ results[i].url = results[j].url

(***************************************************************************)
(* Properties of the bulk scraping part of the page.                       *)
(***************************************************************************)
NewLine == <<"\n">>

\* the places of the lines of a text that are not blank
NonBlankLines(lines) == { n \in 1..Len(lines) : ~IsBlank(lines[n]) }

\* the k-th smallest element of a set of numbers
Kth(S, k) == CHOOSE n \in S : Cardinality({ m \in S : m < n }) = k - 1

NameIsTxtOrCsv(name) ==
    \/ endsWith(toLowerCase(name), TxtSuffix)
    \/ endsWith(toLowerCase(name), CsvSuffix)

\* C22: handleUrlsFileUpload ignores blank and white-space-only lines when it
\* reads the URL list (the URLs it finds are the other lines, trimmed, in
\* order), and a file that is not .txt or .csv, or that holds no non-blank
\* line, is rejected with an error while the stored URL content and the
\* state of the scrape button stay as they were.
C22_UrlsUploadIgnoresBlankLines ==
    [][/\ \A file \in UrlsFiles :
            (/\ handler' = "handleUrlsFileUpload"
             /\ ~NameIsTxtOrCsv(file.name)
             /\ HandleUrlsFileUpload(file)) =>
                /\ urlsPreview'.shows = "errorNotUrlsFile"
                /\ pendingUrlReads' = pendingUrlReads
                /\ urlsFileContent' = urlsFileContent
                /\ scrapeUrlsBtn' = scrapeUrlsBtn
       /\ \A read \in BagToSet(pendingUrlReads) :
            (/\ handler' = "urls reader.onload"
             /\ UrlsReaderLoads(read)) =>
                LET lines == split(read.content, NewLine)
                    places == NonBlankLines(lines)
                IN  IF places = {}
                    THEN /\ urlsPreview'.shows = "errorNoUrls"
                         /\ urlsFileContent' = urlsFileContent
                         /\ scrapeUrlsBtn' = scrapeUrlsBtn
                    ELSE /\ urlsPreview'.shows = "loaded"
                         /\ urlsPreview'.found = Cardinality(places)
                         /\ Len(urlsPreview'.urls) = Cardinality(places)
                         /\ \A k \in 1..Cardinality(places) :
                               urlsPreview'.urls[k] = trim(lines[Kth(places, k)])]_vars

\* C22 witness: a file that is neither .txt nor .csv was just rejected while
\* the content stored from an earlier file, one with blank and
\* white-space-only lines between its URLs, and the enabled scrape button
\* are in place.
C22_Witness ==
    /\ handler = "handleUrlsFileUpload"
    /\ urlsPreview.shows = "errorNotUrlsFile"
    /\ ~scrapeUrlsBtn.disabled
    /\ LET lines == split(urlsFileContent, NewLine)
       IN  /\ \E n \in 1..Len(lines) : lines[n] = <<>>
           /\ \E n \in 1..Len(lines) : lines[n] # <<>> /\ IsBlank(lines[n])
           /\ Cardinality(NonBlankLines(lines)) = 2

\* C28: after every scrape click that sends a request, the scrape button is
\* disabled while the request is in flight, and it is enabled again with
\* its original label once the answer has come, whether the answer reports
\* success, reports an error, cannot be parsed, or the call fails.  The
\* second half is stated of the state the last callback leaves.
C28_ScrapeButtonDisabledInFlight ==
    /\ pendingScrapes # EmptyBag => scrapeUrlsBtn.disabled
    /\ (handler = "scrape fetch.finally" /\ pendingScrapes = EmptyBag) =>
           scrapeUrlsBtn = [disabled |-> FALSE, textContent |-> ScrapeLabel]

=============================================================================
